---- MODULE Spec2Model ----
(***************************************************************************)
(* Model of the clickhouse-schema_table resource                           *)
(* (internal/provider/table_resource.go): the lifecycle handlers Create,   *)
(* Read, Update, Delete and ImportState, the helpers they call, and the    *)
(* ClickHouse metadata they read and write.                                *)
(*                                                                         *)
(* Go strings are TLA+ strings; strings.Split, strings.Trim,               *)
(* strings.TrimSpace and strings.HasPrefix are computed character by       *)
(* character.  A types.String is a record [state, value] whose state is    *)
(* "null", "unknown" or "known"; ValueString() of a null or unknown value  *)
(* is "".                                                                  *)
(***************************************************************************)
EXTENDS Integers, Sequences, FiniteSets, TLC

VARIABLES
    state,   \* the tracked Terraform state of the resource (NullState or a TableResourceModel)
    db,      \* the tables of the ClickHouse server (system.tables joined with system.columns)
    op,      \* the last handler invocation: its name, request and data-access fault
    diags,   \* resp.Diagnostics of the last handler invocation (errors only)
    log      \* the data-access round-trips the last handler invocation issued, in order

vars == <<state, db, op, diags, log>>

\* Longest column list of a desired or an actual table.
MaxCols == 2

-----------------------------------------------------------------------------
(* Go string functions *)

\* position of the first occurrence of the one-character string ch in s, 0 if none
Index(s, ch) ==
    IF \E j \in 1..Len(s) : SubSeq(s, j, j) = ch
    THEN CHOOSE j \in 1..Len(s) :
            /\ SubSeq(s, j, j) = ch
            /\ \A k \in 1..(j - 1) : SubSeq(s, k, k) # ch
    ELSE 0

RECURSIVE Split(_, _)
\* strings.Split(s, sep) for a one-character separator
Split(s, sep) ==
    LET i == Index(s, sep)
    IN  IF i = 0 THEN <<s>>
        ELSE <<SubSeq(s, 1, i - 1)>> \o Split(SubSeq(s, i + 1, Len(s)), sep)

RECURSIVE TrimLeft(_, _)
TrimLeft(s, cutset) ==
    IF Len(s) > 0 /\ SubSeq(s, 1, 1) \in cutset
    THEN TrimLeft(SubSeq(s, 2, Len(s)), cutset)
    ELSE s

RECURSIVE TrimRight(_, _)
TrimRight(s, cutset) ==
    IF Len(s) > 0 /\ SubSeq(s, Len(s), Len(s)) \in cutset
    THEN TrimRight(SubSeq(s, 1, Len(s) - 1), cutset)
    ELSE s

\* strings.Trim(s, cutset): every leading and trailing character of the cutset is removed
Trim(s, cutset) == TrimRight(TrimLeft(s, cutset), cutset)

\* strings.TrimSpace(s)
TrimSpace(s) == Trim(s, {" ", "\t", "\n", "\r"})

\* strings.HasPrefix(s, prefix)
HasPrefix(s, prefix) ==
    /\ Len(s) >= Len(prefix)
    /\ SubSeq(s, 1, Len(prefix)) = prefix

-----------------------------------------------------------------------------
(* types.String of the plugin framework *)

StringNull == [state |-> "null", value |-> ""]
StringUnknown == [state |-> "unknown", value |-> ""]
StringValue(v) == [state |-> "known", value |-> v]
IsNull(s) == s.state = "null"
IsUnknown(s) == s.state = "unknown"
ValueString(s) == s.value

\* the tracked state of a resource that is not (or no longer) tracked
NullState == [isNull |-> TRUE]

\* sql.NullString
NullStringOf(v) == [Valid |-> TRUE, String |-> v]
NullStringNULL == [Valid |-> FALSE, String |-> ""]

\* a Go error value: nil, or an error of some kind
Nil == [kind |-> "nil"]
ErrNoRows == [kind |-> "sql.ErrNoRows"]
ErrIO == [kind |-> "io"]

ColumnModel(name, type, comment) == [Name |-> name, Type |-> type, Comment |-> comment]
ColumnInfo(name, type, comment) == [Name |-> name, Type |-> type, Comment |-> comment]

-----------------------------------------------------------------------------
(* The ClickHouse server as the handlers see it.  A table is a record       *)
(* [database, name, engine, columns, sorting_key]; columns is the sequence  *)
(* of its system.columns rows in position order.                           *)

TablesAt(d, database, tableName) ==
    {t \in d : t.database = database /\ t.name = tableName}

Exists(d, database, tableName) == TablesAt(d, database, tableName) # {}

TheTable(d, database, tableName) ==
    CHOOSE t \in TablesAt(d, database, tableName) : TRUE

\* SELECT engine FROM system.tables WHERE database = ? AND name = ?  (QueryRowContext + Scan)
QueryEngine(d, database, tableName, fails) ==
    IF fails THEN [err |-> ErrIO, engine |-> ""]
    ELSE IF ~Exists(d, database, tableName) THEN [err |-> ErrNoRows, engine |-> ""]
    ELSE [err |-> Nil, engine |-> TheTable(d, database, tableName).engine]

RECURSIVE rowsToMap(_, _)
\* the loop of getTableColumns: columns[name] = ColumnInfo{...} for every row in turn
rowsToMap(rows, columns) ==
    IF rows = <<>> THEN columns
    ELSE LET row == Head(rows)
             info == ColumnInfo(row.name, row.type, row.comment)
         IN  rowsToMap(Tail(rows),
                       [n \in (DOMAIN columns) \cup {row.name} |->
                            IF n = row.name THEN info ELSE columns[n]])

EmptyMap == [n \in {} |-> ColumnInfo("", "", "")]

\* getTableColumns returning what it has read, without an error, when the query fails
getTableColumnsSwallowing(d, database, tableName, fails) ==
    LET rows == IF Exists(d, database, tableName) /\ ~fails
                THEN TheTable(d, database, tableName).columns
                ELSE <<>>
    IN  [err |-> Nil, columns |-> rowsToMap(rows, EmptyMap)]

\* getTableColumns: the rows of system.columns for the table, as a map keyed by name;
\* a table that does not exist has no rows, which is not an error
getTableColumns(d, database, tableName, fails) ==
    IF fails THEN [err |-> ErrIO, columns |-> EmptyMap]
    ELSE LET rows == IF Exists(d, database, tableName)
                     THEN TheTable(d, database, tableName).columns
                     ELSE <<>>
         IN  [err |-> Nil, columns |-> rowsToMap(rows, EmptyMap)]

\* TrimAll with the strings.TrimSpace call left out
TrimAllUntrimmed(columns) == columns

\* the element-wise strings.TrimSpace loop of getTableOrderBy
TrimAll(columns) == [i \in 1..Len(columns) |-> TrimSpace(columns[i])]

\* the parsing half of getTableOrderBy, applied to the scanned sql.NullString
parseSortingKey(sortingKey) ==
    IF ~sortingKey.Valid \/ sortingKey.String = "" THEN <<>>
    ELSE LET orderBy == Trim(sortingKey.String, {"(", ")"})
         IN  IF orderBy = "" THEN <<>>
             ELSE TrimAll(Split(orderBy, ","))

\* getTableOrderBy: SELECT sorting_key FROM system.tables ... (QueryRowContext + Scan), then parse
getTableOrderBy(d, database, tableName, fails) ==
    IF fails THEN [err |-> ErrIO, orderBy |-> <<>>]
    ELSE IF ~Exists(d, database, tableName) THEN [err |-> ErrNoRows, orderBy |-> <<>>]
    ELSE [err |-> Nil,
          orderBy |-> parseSortingKey(TheTable(d, database, tableName).sorting_key)]

-----------------------------------------------------------------------------
(* Schema comparison *)

mergeTreeEngines ==
    << "MergeTree", "ReplacingMergeTree", "SummingMergeTree",
       "AggregatingMergeTree", "CollapsingMergeTree", "VersionedCollapsingMergeTree",
       "GraphiteMergeTree" >>

isMergeTreeFamily(engine) ==
    \E i \in 1..Len(mergeTreeEngines) : HasPrefix(engine, mergeTreeEngines[i])

\* expectedCommentOf taking the text types.String prints: quoted, <null> when null
expectedCommentOfPrinted(expected) ==
    IF ~IsNull(expected.Comment) /\ ~IsUnknown(expected.Comment)
    THEN "\"" \o ValueString(expected.Comment) \o "\""
    ELSE "<null>"

\* the comment a desired column is compared with
expectedCommentOf(expected) ==
    IF ~IsNull(expected.Comment) /\ ~IsUnknown(expected.Comment)
    THEN ValueString(expected.Comment)
    ELSE ""

RECURSIVE checkColumnsFromLast(_, _, _)
\* the loop of validateColumns visiting the expected columns from the last to the first
checkColumnsFromLast(expectedCols, actualCols, i) ==
    IF i > Len(expectedCols) THEN Nil
    ELSE LET expected == expectedCols[Len(expectedCols) + 1 - i]
             name == ValueString(expected.Name)
         IN  IF name \notin DOMAIN actualCols
             THEN [kind |-> "missing", column |-> name]
             ELSE IF actualCols[name].Type # ValueString(expected.Type)
             THEN [kind |-> "type", column |-> name,
                   expected |-> ValueString(expected.Type), found |-> actualCols[name].Type]
             ELSE IF actualCols[name].Comment # expectedCommentOf(expected)
             THEN [kind |-> "comment", column |-> name,
                   expected |-> expectedCommentOf(expected), found |-> actualCols[name].Comment]
             ELSE checkColumnsFromLast(expectedCols, actualCols, i + 1)

RECURSIVE checkColumns(_, _, _)
\* the loop of validateColumns from the i-th expected column on
checkColumns(expectedCols, actualCols, i) ==
    IF i > Len(expectedCols) THEN Nil
    ELSE LET expected == expectedCols[i]
             name == ValueString(expected.Name)
         IN  IF name \notin DOMAIN actualCols
             THEN [kind |-> "missing", column |-> name]
             ELSE IF actualCols[name].Type # ValueString(expected.Type)
             THEN [kind |-> "type", column |-> name,
                   expected |-> ValueString(expected.Type), found |-> actualCols[name].Type]
             ELSE IF actualCols[name].Comment # expectedCommentOf(expected)
             THEN [kind |-> "comment", column |-> name,
                   expected |-> expectedCommentOf(expected), found |-> actualCols[name].Comment]
             ELSE checkColumns(expectedCols, actualCols, i + 1)

\* validateColumns with the length comparison left out
validateColumnsUncounted(expectedCols, actualCols) ==
    checkColumns(expectedCols, actualCols, 1)

validateColumns(expectedCols, actualCols) ==
    IF Len(expectedCols) # Cardinality(DOMAIN actualCols)
    THEN [kind |-> "count", expected |-> Len(expectedCols),
          found |-> Cardinality(DOMAIN actualCols)]
    ELSE checkColumns(expectedCols, actualCols, 1)

\* validateOrderBy comparing the two keys as sets of names
validateOrderByUnordered(expected, actual) ==
    LET expectedStrs == [i \in 1..Len(expected) |-> ValueString(expected[i])]
    IN  IF Len(expectedStrs) # Len(actual)
        THEN [kind |-> "orderByCount", expected |-> Len(expectedStrs), found |-> Len(actual)]
        ELSE IF {expectedStrs[i] : i \in 1..Len(expectedStrs)} # {actual[i] : i \in 1..Len(actual)}
        THEN [kind |-> "orderByColumn", position |-> 1,
              expected |-> expectedStrs[1], found |-> actual[1]]
        ELSE Nil

validateOrderBy(expected, actual) ==
    LET expectedStrs == [i \in 1..Len(expected) |-> ValueString(expected[i])]
    IN  IF Len(expectedStrs) # Len(actual)
        THEN [kind |-> "orderByCount", expected |-> Len(expectedStrs), found |-> Len(actual)]
        ELSE IF \E i \in 1..Len(expectedStrs) : expectedStrs[i] # actual[i]
        THEN LET i == CHOOSE j \in 1..Len(expectedStrs) :
                        /\ expectedStrs[j] # actual[j]
                        /\ \A k \in 1..(j - 1) : expectedStrs[k] = actual[k]
             IN  [kind |-> "orderByColumn", position |-> i,
                  expected |-> expectedStrs[i], found |-> actual[i]]
        ELSE Nil

-----------------------------------------------------------------------------
(* DDL synthesis *)

RECURSIVE columnsSQLNonEmpty(_, _)
\* the column loop with the COMMENT clause tied to a non-empty comment text
columnsSQLNonEmpty(columns, i) ==
    IF i > Len(columns) THEN ""
    ELSE LET col == columns[i]
         IN  (IF i > 1 THEN ",\n" ELSE "")
             \o "    " \o ValueString(col.Name) \o " " \o ValueString(col.Type)
             \o (IF ValueString(col.Comment) # ""
                 THEN " COMMENT '" \o ValueString(col.Comment) \o "'"
                 ELSE "")
             \o columnsSQLNonEmpty(columns, i + 1)

RECURSIVE columnsSQL(_, _)
\* the column loop of generateCreateTableSQL from the i-th column on
columnsSQL(columns, i) ==
    IF i > Len(columns) THEN ""
    ELSE LET col == columns[i]
         IN  (IF i > 1 THEN ",\n" ELSE "")
             \o "    " \o ValueString(col.Name) \o " " \o ValueString(col.Type)
             \o (IF ~IsNull(col.Comment) /\ ~IsUnknown(col.Comment)
                 THEN " COMMENT '" \o ValueString(col.Comment) \o "'"
                 ELSE "")
             \o columnsSQL(columns, i + 1)

RECURSIVE orderBySQL(_, _)
\* the ORDER BY loop of generateCreateTableSQL from the i-th entry on
orderBySQL(orderBy, i) ==
    IF i > Len(orderBy) THEN ""
    ELSE (IF i > 1 THEN ", " ELSE "") \o ValueString(orderBy[i]) \o orderBySQL(orderBy, i + 1)

\* generateCreateTableSQL with the ORDER BY clause kept for the MergeTree family
generateCreateTableSQLFamilyOnly(data) ==
    "CREATE TABLE " \o ValueString(data.Database) \o "." \o ValueString(data.Name) \o " (\n"
    \o columnsSQL(data.Columns, 1)
    \o "\n) ENGINE = " \o ValueString(data.Engine)
    \o (IF Len(data.OrderBy) > 0 /\ isMergeTreeFamily(ValueString(data.Engine))
        THEN "\nORDER BY (" \o orderBySQL(data.OrderBy, 1) \o ")"
        ELSE "")

generateCreateTableSQL(data) ==
    "CREATE TABLE " \o ValueString(data.Database) \o "." \o ValueString(data.Name) \o " (\n"
    \o columnsSQL(data.Columns, 1)
    \o "\n) ENGINE = " \o ValueString(data.Engine)
    \o (IF Len(data.OrderBy) > 0
        THEN "\nORDER BY (" \o orderBySQL(data.OrderBy, 1) \o ")"
        ELSE "")

\* generateDropTableSQL without the IF EXISTS guard
generateDropTableSQLUnguarded(data) ==
    "DROP TABLE " \o ValueString(data.Database) \o "." \o ValueString(data.Name)

\* the statement Delete builds
generateDropTableSQL(data) ==
    "DROP TABLE IF EXISTS " \o ValueString(data.Database) \o "." \o ValueString(data.Name)

-----------------------------------------------------------------------------
(* What the server does with the two statements.  ClickHouse stores a      *)
(* column declared without COMMENT with the comment '', and reports the    *)
(* ORDER BY expression list as sorting_key, entries separated by ", ".     *)

storedColumns(columns) ==
    [i \in 1..Len(columns) |->
        [name |-> ValueString(columns[i].Name),
         type |-> ValueString(columns[i].Type),
         comment |-> IF ~IsNull(columns[i].Comment) /\ ~IsUnknown(columns[i].Comment)
                     THEN ValueString(columns[i].Comment)
                     ELSE ""]]

createdTable(data) ==
    [database |-> ValueString(data.Database),
     name |-> ValueString(data.Name),
     engine |-> ValueString(data.Engine),
     columns |-> storedColumns(data.Columns),
     sorting_key |-> NullStringOf(orderBySQL(data.OrderBy, 1))]

\* CREATE TABLE db.name (...): fails when the table exists, else adds it
ExecCreate(d, data) ==
    IF Exists(d, ValueString(data.Database), ValueString(data.Name))
    THEN [err |-> [kind |-> "exists"], db |-> d]
    ELSE [err |-> Nil, db |-> d \cup {createdTable(data)}]

\* a DROP TABLE statement for db.name: the server removes the table when it is there;
\* when it is not, the statement fails unless it is guarded by IF EXISTS
ExecDrop(d, sql, database, tableName) ==
    IF ~Exists(d, database, tableName) /\ ~HasPrefix(sql, "DROP TABLE IF EXISTS ")
    THEN [err |-> [kind |-> "unknown table"], db |-> d]
    ELSE [err |-> Nil, db |-> d \ TablesAt(d, database, tableName)]

-----------------------------------------------------------------------------
(* Handler results.  Each handler is computed as a record                  *)
(* [diags, log, result, data]: the diagnostics it added, the round-trips    *)
(* it issued and what it did to resp.State ("none", "set" or "removed").   *)

Diag(summary, detail) == [summary |-> summary, detail |-> detail]

EngineQuery == "SELECT engine FROM system.tables WHERE database = ? AND name = ?"
ColumnsQuery == "SELECT name, type, comment FROM system.columns WHERE database = ? AND table = ? ORDER BY position"
SortingKeyQuery == "SELECT sorting_key FROM system.tables WHERE database = ? AND name = ?"

Query(sql, database, tableName) == [call |-> "Query", sql |-> sql, args |-> <<database, tableName>>]
Exec(sql) == [call |-> "Exec", sql |-> sql, args |-> <<>>]

Outcome(ds, lg, result, data) == [diags |-> ds, log |-> lg, result |-> result, data |-> data]

\* Read's check of the split id
validTableID(parts) == Len(parts) = 2

\* onLookupErrorRead without the sql.ErrNoRows case
onLookupErrorReadStrict(err, id, lg, data) ==
    Outcome(<<Diag("Error checking table existence", [id |-> id])>>, lg, "none", data)

\* Read's branch on a failed engine lookup
onLookupErrorRead(err, id, lg, data) ==
    IF err = ErrNoRows
    THEN Outcome(<<>>, lg, "removed", data)
    ELSE Outcome(<<Diag("Error checking table existence", [id |-> id])>>, lg, "none", data)

\* Read, the three queries answered from the server as it stands when each is issued
ReadOutcome(data, dEngine, dColumns, dOrderBy, fault) ==
    LET id == ValueString(data.ID)
        parts == Split(id, ".")
    IN
    IF ~validTableID(parts)
    THEN Outcome(<<Diag("Invalid table ID", [id |-> id])>>, <<>>, "none", data)
    ELSE
    LET database == parts[1]
        tableName == parts[2]
        q1 == QueryEngine(dEngine, database, tableName, fault = "engine")
        log1 == <<Query(EngineQuery, database, tableName)>>
        actualEngine == q1.engine
    IN
    IF q1.err # Nil
    THEN onLookupErrorRead(q1.err, id, log1, data)
    ELSE IF actualEngine # ValueString(data.Engine)
    THEN Outcome(<<Diag("Table engine mismatch",
                        [expected |-> ValueString(data.Engine), found |-> actualEngine])>>,
                 log1, "none", data)
    ELSE
    LET q2 == getTableColumns(dColumns, database, tableName, fault = "columns")
        log2 == Append(log1, Query(ColumnsQuery, database, tableName))
        colErr == validateColumns(data.Columns, q2.columns)
    IN
    IF q2.err # Nil
    THEN Outcome(<<Diag("Error reading table schema", [id |-> id])>>, log2, "none", data)
    ELSE IF colErr # Nil
    THEN Outcome(<<Diag("Table schema mismatch", colErr)>>, log2, "none", data)
    ELSE IF ~isMergeTreeFamily(actualEngine)
    THEN Outcome(<<>>, log2, "set", data)
    ELSE
    LET q3 == getTableOrderBy(dOrderBy, database, tableName, fault = "sorting_key")
        log3 == Append(log2, Query(SortingKeyQuery, database, tableName))
        obErr == validateOrderBy(data.OrderBy, q3.orderBy)
    IN
    IF q3.err # Nil
    THEN Outcome(<<Diag("Error reading table ORDER BY", [id |-> id])>>, log3, "none", data)
    ELSE IF obErr # Nil
    THEN Outcome(<<Diag("Table ORDER BY mismatch", obErr)>>, log3, "none", data)
    ELSE Outcome(<<>>, log3, "set", data)

\* the orders in which a range loop may visit the keys of a Go map
IterationOrders(m) ==
    LET keys == DOMAIN m
        n == Cardinality(keys)
    IN  {o \in [1..n -> keys] : \A i, j \in 1..n : o[i] = o[j] => i = j}

\* the conversion loop with every comment of the database taken as present
columnModelsOfPresent(columns, order) ==
    [i \in 1..Len(order) |->
        LET col == columns[order[i]]
        IN  ColumnModel(StringValue(col.Name), StringValue(col.Type), StringValue(col.Comment))]

\* the conversion loop of ImportState for one visiting order of the map
columnModelsOf(columns, order) ==
    [i \in 1..Len(order) |->
        LET col == columns[order[i]]
        IN  ColumnModel(StringValue(col.Name), StringValue(col.Type),
                        IF col.Comment # "" THEN StringValue(col.Comment) ELSE StringNull)]

\* checkImportID without the check for empty parts
checkImportIDShapeOnly(parts) ==
    IF Len(parts) # 2 THEN "shape" ELSE "ok"

\* ImportState's checks of the split identifier: "shape" when it has not two parts,
\* "empty" when a part is empty, "ok" otherwise
checkImportID(parts) ==
    IF Len(parts) # 2 THEN "shape"
    ELSE IF parts[1] = "" \/ parts[2] = "" THEN "empty"
    ELSE "ok"

\* onLookupErrorImport treating sql.ErrNoRows the way Read does
onLookupErrorImportLenient(err, database, tableName, lg) ==
    IF err = ErrNoRows
    THEN Outcome(<<>>, lg, "removed", NullState)
    ELSE Outcome(<<Diag("Error checking table existence", [id |-> database \o "." \o tableName])>>,
                 lg, "none", NullState)

\* ImportState's branch on a failed engine lookup
onLookupErrorImport(err, database, tableName, lg) ==
    IF err = ErrNoRows
    THEN Outcome(<<Diag("Table not found", [id |-> database \o "." \o tableName])>>,
                 lg, "none", NullState)
    ELSE Outcome(<<Diag("Error checking table existence", [id |-> database \o "." \o tableName])>>,
                 lg, "none", NullState)

\* ImportState for one visiting order of the column map
ImportOutcomeIn(id, dEngine, dColumns, dOrderBy, fault, order) ==
    LET parts == Split(id, ".")
    IN
    IF checkImportID(parts) = "shape"
    THEN Outcome(<<Diag("Invalid import identifier", [id |-> id])>>, <<>>, "none", NullState)
    ELSE
    LET database == parts[1]
        tableName == parts[2]
    IN
    IF checkImportID(parts) = "empty"
    THEN Outcome(<<Diag("Invalid import identifier", [id |-> "Database and table names cannot be empty"])>>,
                 <<>>, "none", NullState)
    ELSE
    LET q1 == QueryEngine(dEngine, database, tableName, fault = "engine")
        log1 == <<Query(EngineQuery, database, tableName)>>
        engine == q1.engine
    IN
    IF q1.err # Nil
    THEN onLookupErrorImport(q1.err, database, tableName, log1)
    ELSE
    LET q2 == getTableColumns(dColumns, database, tableName, fault = "columns")
        log2 == Append(log1, Query(ColumnsQuery, database, tableName))
    IN
    IF q2.err # Nil
    THEN Outcome(<<Diag("Error reading table schema", [id |-> database \o "." \o tableName])>>,
                 log2, "none", NullState)
    ELSE
    LET columnModels == columnModelsOf(q2.columns, order)
        family == isMergeTreeFamily(engine)
        q3 == getTableOrderBy(dOrderBy, database, tableName, fault = "sorting_key")
        log3 == IF family THEN Append(log2, Query(SortingKeyQuery, database, tableName)) ELSE log2
        orderBy == IF family
                   THEN [i \in 1..Len(q3.orderBy) |-> StringValue(q3.orderBy[i])]
                   ELSE <<>>
    IN
    IF family /\ q3.err # Nil
    THEN Outcome(<<Diag("Error reading table ORDER BY", [id |-> database \o "." \o tableName])>>,
                 log3, "none", NullState)
    ELSE Outcome(<<>>, log3, "set",
                 [ID |-> StringValue(id),
                  Name |-> StringValue(tableName),
                  Database |-> StringValue(database),
                  Engine |-> StringValue(engine),
                  Columns |-> columnModels,
                  OrderBy |-> orderBy])

\* the visiting orders ImportState may meet: those of the map getTableColumns returns
\* when the handler gets that far, one (of the empty map) when it returns before
ImportOrders(id, dColumns) ==
    LET parts == Split(id, ".")
    IN  IF Len(parts) # 2 THEN IterationOrders(EmptyMap)
        ELSE IterationOrders(getTableColumns(dColumns, parts[1], parts[2], FALSE).columns)

\* the results ImportState may produce
ImportOutcomes(id, dEngine, dColumns, dOrderBy, fault) ==
    {ImportOutcomeIn(id, dEngine, dColumns, dOrderBy, fault, order) :
        order \in ImportOrders(id, dColumns)}

\* the database default applied to a null database only
withDefaultDatabaseNullOnly(data) ==
    IF IsNull(data.Database)
    THEN [data EXCEPT !.Database = StringValue("default")]
    ELSE data

\* the plan data of Create after the database default is applied
withDefaultDatabase(data) ==
    IF IsNull(data.Database) \/ IsUnknown(data.Database)
    THEN [data EXCEPT !.Database = StringValue("default")]
    ELSE data

\* the ID Create sets
idOf(data) == StringValue(ValueString(data.Database) \o "." \o ValueString(data.Name))

\* CreateOutcome setting the ID and saving the state whatever the statement returned
CreateOutcomeEager(plan, d, fault) ==
    LET data == withDefaultDatabase(plan)
        createSQL == generateCreateTableSQL(data)
        ex == IF fault = "exec" THEN [err |-> ErrIO, db |-> d] ELSE ExecCreate(d, data)
    IN  [out |-> Outcome(IF ex.err # Nil
                         THEN <<Diag("Error creating table",
                                     [id |-> ValueString(data.Database) \o "." \o ValueString(data.Name)])>>
                         ELSE <<>>,
                         <<Exec(createSQL)>>, "set", [data EXCEPT !.ID = idOf(data)]),
         db |-> ex.db]

\* Create: result is the outcome, db the server after the call
CreateOutcome(plan, d, fault) ==
    LET data == withDefaultDatabase(plan)
        createSQL == generateCreateTableSQL(data)
        ex == IF fault = "exec" THEN [err |-> ErrIO, db |-> d] ELSE ExecCreate(d, data)
    IN  IF ex.err # Nil
        THEN [out |-> Outcome(<<Diag("Error creating table",
                                     [id |-> ValueString(data.Database) \o "." \o ValueString(data.Name)])>>,
                              <<Exec(createSQL)>>, "none", data),
              db |-> ex.db]
        ELSE [out |-> Outcome(<<>>, <<Exec(createSQL)>>, "set", [data EXCEPT !.ID = idOf(data)]),
              db |-> ex.db]

\* UpdateOutcome saving the plan instead of failing
UpdateOutcomeSaved(plan) ==
    Outcome(<<>>, <<>>, "set", plan)

\* Update: the plan is read and an error is added
UpdateOutcome(plan) ==
    Outcome(<<Diag("Update is not implemented", [id |-> "Update is not implemented"])>>,
            <<>>, "none", plan)

\* Delete issuing the statement a second time when the first attempt failed
DeleteOutcomeRetried(data, d, fault) ==
    LET dropSQL == generateDropTableSQL(data)
        ex == ExecDrop(d, dropSQL, ValueString(data.Database), ValueString(data.Name))
    IN  IF fault = "exec"
        THEN [out |-> Outcome(IF ex.err # Nil
                              THEN <<Diag("Error dropping table", [id |-> ValueString(data.ID)])>>
                              ELSE <<>>,
                              <<Exec(dropSQL), Exec(dropSQL)>>, "none", data),
              db |-> ex.db]
        ELSE [out |-> Outcome(IF ex.err # Nil
                              THEN <<Diag("Error dropping table", [id |-> ValueString(data.ID)])>>
                              ELSE <<>>,
                              <<Exec(dropSQL)>>, "none", data),
              db |-> ex.db]

\* Delete: result is the outcome, db the server after the call
DeleteOutcome(data, d, fault) ==
    LET dropSQL == generateDropTableSQL(data)
        ex == IF fault = "exec" THEN [err |-> ErrIO, db |-> d]
              ELSE ExecDrop(d, dropSQL, ValueString(data.Database), ValueString(data.Name))
    IN  IF ex.err # Nil
        THEN [out |-> Outcome(<<Diag("Error dropping table", [id |-> ValueString(data.ID)])>>,
                              <<Exec(dropSQL)>>, "none", data),
              db |-> ex.db]
        ELSE [out |-> Outcome(<<>>, <<Exec(dropSQL)>>, "none", data), db |-> ex.db]

-----------------------------------------------------------------------------
(* Inputs *)

\* sequences over S of length at most n
SeqUpTo(S, n) == UNION {[1..k -> S] : k \in 0..n}

\* what the configuration may say for the lifecycle runs
PlanDatabases == {StringNull, StringUnknown, StringValue("d")}
PlanNames == {"t", "", "b.c"}
PlanColumnsPlain ==
    <<ColumnModel(StringValue("id"), StringValue("UInt64"), StringNull)>>
PlanColumnsCommented ==
    <<ColumnModel(StringValue("id"), StringValue("UInt64"), StringValue("pk")),
      ColumnModel(StringValue("ts"), StringValue("DateTime"), StringValue(""))>>
PlanShapes ==
    { [Engine |-> StringValue("MergeTree"), Columns |-> PlanColumnsCommented,
       OrderBy |-> <<StringValue("id")>>],
      [Engine |-> StringValue("MergeTree"), Columns |-> PlanColumnsPlain, OrderBy |-> <<>>],
      [Engine |-> StringValue("Log"), Columns |-> PlanColumnsPlain, OrderBy |-> <<>>],
      [Engine |-> StringValue("Log"), Columns |-> PlanColumnsCommented,
       OrderBy |-> <<StringValue("id")>>] }

\* the plans for a table of a given name and database; the id is computed, hence
\* unknown until Create sets it
PlansFor(name, database) ==
    {[ID |-> StringUnknown, Name |-> name, Database |-> database, Engine |-> sh.Engine,
      Columns |-> sh.Columns, OrderBy |-> sh.OrderBy] : sh \in PlanShapes}

Plans == UNION {PlansFor(StringValue(n), d) : n \in PlanNames, d \in PlanDatabases}

\* the tables default.t other actors create
LiveColumnLists ==
    { << [name |-> "id", type |-> "UInt64", comment |-> ""] >>,
      << [name |-> "id", type |-> "UInt64", comment |-> "pk"],
         [name |-> "ts", type |-> "DateTime", comment |-> ""] >> }
LiveTables ==
    {[database |-> "default", name |-> "t", engine |-> e, columns |-> c,
      sorting_key |-> NullStringOf(k)] :
        e \in {"MergeTree", "Log"}, c \in LiveColumnLists, k \in {"", "id"}}
    \cup
    { [database |-> "default", name |-> "t", engine |-> "MergeTree",
       columns |-> << [name |-> "ts", type |-> "DateTime", comment |-> ""],
                      [name |-> "id", type |-> "UInt64", comment |-> "pk"] >>,
       sorting_key |-> NullStringOf("ts, id")],
      [database |-> "default", name |-> "t", engine |-> "Log",
       columns |-> << [name |-> "id", type |-> "String", comment |-> ""] >>,
       sorting_key |-> NullStringNULL] }

\* the tables of the import-then-verify runs: the live tables, and tables whose sorting
\* key is an expression or parenthesized, under a MergeTree-family engine
FixTables ==
    LiveTables \cup
    {[database |-> "default", name |-> "t", engine |-> e,
      columns |-> << [name |-> "id", type |-> "UInt64", comment |-> ""],
                     [name |-> "ts", type |-> "DateTime", comment |-> "pk"] >>,
      sorting_key |-> NullStringOf(k)] :
        e \in {"MergeTree", "ReplacingMergeTree"}, k \in {"toDate(ts)", "(id, ts)", "id"}}

\* the identifiers handed to terraform import
ImportIDs == {"default.t", "d.t", ".t", "db.", "a.b.c", "default", ".", ""}

\* the query of Read or ImportState that fails with an I/O error, if any
QueryFaults == {"none", "engine", "columns", "sorting_key"}
\* whether the statement of Create or Delete fails with an I/O error
ExecFaults == {"none", "exec"}

\* the desired and the actual tables of the comparison runs
VerifyEngines == {"MergeTree", "Log"}
DesiredColumns ==
    { ColumnModel(StringValue("id"), StringValue("UInt64"), StringNull),
      ColumnModel(StringValue("id"), StringValue("UInt64"), StringValue("pk")),
      ColumnModel(StringValue("id"), StringValue("UInt64"), StringValue("")),
      ColumnModel(StringValue("ts"), StringValue("DateTime"), StringValue("")),
      ColumnModel(StringValue("ts"), StringValue("datetime"), StringNull) }
DesiredColumnLists == SeqUpTo(DesiredColumns, MaxCols)
DesiredOrderBys ==
    { <<>>, <<StringValue("id"), StringValue("ts")>>, <<StringValue("ts"), StringValue("id")>> }

ActualColumns ==
    { [name |-> "id", type |-> "UInt64", comment |-> ""],
      [name |-> "id", type |-> "UInt64", comment |-> "pk"],
      [name |-> "ts", type |-> "DateTime", comment |-> ""],
      [name |-> "ts", type |-> "DateTime", comment |-> "pk"],
      [name |-> "msg", type |-> "String", comment |-> ""] }
\* the position a column name takes in the actual tables of the comparison runs
ColumnRank(name) == CASE name = "id" -> 1 [] name = "ts" -> 2 [] OTHER -> 3
\* system.columns holds one row per column name
ActualColumnLists ==
    {c \in SeqUpTo(ActualColumns, MaxCols) :
        \A i, j \in 1..Len(c) : i < j => ColumnRank(c[i].name) < ColumnRank(c[j].name)}
SortingKeys ==
    { NullStringNULL, NullStringOf(""), NullStringOf("id, ts"), NullStringOf("ts, id") }

\* the plans of the statement runs: every desired column list under both engines, with
\* and without an order key, the database given or left to the default
SynthNames == {"events"}
SynthDatabases == {StringNull, StringValue("default")}
SynthOrderBys ==
    { <<>>, <<StringValue("id")>>, <<StringValue("id"), StringValue("ts")>> }
SynthPlans ==
    {[ID |-> StringUnknown, Name |-> StringValue(n), Database |-> d, Engine |-> StringValue(e),
      Columns |-> c, OrderBy |-> o] :
        n \in SynthNames, d \in SynthDatabases, e \in VerifyEngines,
        c \in DesiredColumnLists, o \in SynthOrderBys}

\* the plans of the round-trip runs: a table t in the default database, its columns any
\* desired column list with one column per name, its order key plain or an expression
RoundShapes ==
    { [Engine |-> StringValue("Log"), OrderBy |-> <<>>],
      [Engine |-> StringValue("MergeTree"), OrderBy |-> <<StringValue("id")>>],
      [Engine |-> StringValue("MergeTree"), OrderBy |-> <<StringValue("id"), StringValue("ts")>>],
      [Engine |-> StringValue("MergeTree"), OrderBy |-> <<StringValue("toDate(ts)")>>] }
RoundColumnLists ==
    {c \in DesiredColumnLists :
        /\ Len(c) > 0
        /\ \A i, j \in 1..Len(c) : c[i].Name = c[j].Name => i = j}
RoundPlans ==
    {[ID |-> StringUnknown, Name |-> StringValue("t"), Database |-> StringNull,
      Engine |-> sh.Engine, Columns |-> c, OrderBy |-> sh.OrderBy] :
        sh \in RoundShapes, c \in RoundColumnLists}

VerifyStates ==
    {[ID |-> StringValue("default.t"), Name |-> StringValue("t"),
      Database |-> StringValue("default"), Engine |-> StringValue(e),
      Columns |-> c, OrderBy |-> o] :
        e \in VerifyEngines, c \in DesiredColumnLists, o \in DesiredOrderBys}

VerifyDbs ==
    {{}} \cup
    {{[database |-> "default", name |-> "t", engine |-> e, columns |-> c, sorting_key |-> k]} :
        e \in VerifyEngines, c \in ActualColumnLists, k \in SortingKeys}

-----------------------------------------------------------------------------
(* The handlers as the framework invokes them *)

\* the fault that struck: the round-trip it was set on was issued
Struck(fault, lg) ==
    CASE fault = "engine" /\ Len(lg) >= 1 -> fault
      [] fault = "columns" /\ Len(lg) >= 2 -> fault
      [] fault = "sorting_key" /\ Len(lg) >= 3 -> fault
      [] fault = "exec" /\ Len(lg) >= 1 -> fault
      [] OTHER -> "none"

\* the record of an invocation: the handler, its request, the fault that struck, what it
\* did to resp.State and with which data, and the tracked state and the server before it
Invocation(name, req, fault, out, pre) ==
    [name |-> name, req |-> req, fault |-> Struck(fault, out.log), result |-> out.result,
     data |-> out.data, prior |-> state, pre |-> pre]

NoInvocation == [name |-> "none", req |-> NullState, fault |-> "none", result |-> "none",
                 data |-> NullState, prior |-> NullState, pre |-> {}]

Init ==
    /\ state = NullState
    /\ db = {}
    /\ op = NoInvocation
    /\ diags = <<>>
    /\ log = <<>>

\* terraform apply of a resource that is not tracked, with a plan of the given set: the
\* state is saved when Create set it
CreateFrom(plans) ==
    /\ state = NullState
    /\ \E plan \in plans, fault \in ExecFaults :
        LET r == CreateOutcome(plan, db, fault)
        IN  /\ state' = IF r.out.result = "set" THEN r.out.data ELSE state
            /\ db' = r.db
            /\ op' = Invocation("Create", plan, fault, r.out, db)
            /\ diags' = r.out.diags
            /\ log' = r.out.log

Create == CreateFrom(Plans)

\* terraform refresh of the tracked resource: resp.State starts as the prior state
Read ==
    /\ state # NullState
    /\ \E fault \in QueryFaults :
        LET out == ReadOutcome(state, db, db, db, fault)
        IN  /\ state' = CASE out.result = "removed" -> NullState
                          [] out.result = "set" -> out.data
                          [] OTHER -> state
            /\ op' = Invocation("Read", state, fault, out, db)
            /\ diags' = out.diags
            /\ log' = out.log
            /\ UNCHANGED db

\* terraform apply of a change to the tracked resource; name and database require
\* replacement, so the plan of an update keeps them, and the id comes from the state
Update ==
    /\ state # NullState
    /\ \E p \in PlansFor(state.Name, state.Database) :
        LET plan == [p EXCEPT !.ID = state.ID]
            out == UpdateOutcome(plan)
        IN  /\ state' = IF out.result = "set" THEN out.data ELSE state
            /\ op' = Invocation("Update", plan, "none", out, db)
            /\ diags' = out.diags
            /\ log' = out.log
            /\ UNCHANGED db

\* terraform destroy of the tracked resource: the framework drops the state when
\* Delete returns without an error
Delete ==
    /\ state # NullState
    /\ \E fault \in ExecFaults :
        LET r == DeleteOutcome(state, db, fault)
        IN  /\ state' = IF r.out.diags = <<>> THEN NullState ELSE state
            /\ db' = r.db
            /\ op' = Invocation("Delete", state, fault, r.out, db)
            /\ diags' = r.out.diags
            /\ log' = r.out.log

\* terraform import into an address that is not tracked
ImportState ==
    /\ state = NullState
    /\ \E id \in ImportIDs, fault \in QueryFaults :
        \E out \in ImportOutcomes(id, db, db, db, fault) :
            /\ state' = IF out.result = "set" THEN out.data ELSE state
            /\ op' = Invocation("ImportState", id, fault, out, db)
            /\ diags' = out.diags
            /\ log' = out.log
            /\ UNCHANGED db

\* another actor creates a table
ExternalCreate ==
    \E t \in LiveTables :
        /\ ~Exists(db, t.database, t.name)
        /\ db' = db \cup {t}
        /\ op' = [NoInvocation EXCEPT !.name = "ExternalCreate"]
        /\ diags' = <<>>
        /\ log' = <<>>
        /\ UNCHANGED state

\* another actor drops a table
ExternalDrop ==
    \E t \in db :
        /\ db' = db \ {t}
        /\ op' = [NoInvocation EXCEPT !.name = "ExternalDrop"]
        /\ diags' = <<>>
        /\ log' = <<>>
        /\ UNCHANGED state

Next ==
    \/ Create
    \/ Read
    \/ Update
    \/ Delete
    \/ ImportState
    \/ ExternalCreate
    \/ ExternalDrop

Spec == Init /\ [][Next]_vars

\* The comparison runs: a tracked table default.t and a server that holds any
\* actual table under that name, or none; Read is invoked on it.
InitVerify ==
    /\ state \in VerifyStates
    /\ db \in VerifyDbs
    /\ op = NoInvocation
    /\ diags = <<>>
    /\ log = <<>>

NextVerify == Read

SpecVerify == InitVerify /\ [][NextVerify]_vars

\* The statement runs: one Create on an empty server with any plan of SynthPlans; the
\* log holds the statement generateCreateTableSQL built.
CreateSynth == op = NoInvocation /\ CreateFrom(SynthPlans)

NextSynth == CreateSynth

SpecSynth == Init /\ [][NextSynth]_vars

\* The round-trip runs: Create on an empty server with a plan of RoundPlans, then
\* terraform import of the created table in a workspace that does not track it; state
\* is the state of the workspace the last invocation ran in, op.prior the one before.
CreateRound == CreateFrom(RoundPlans)

ImportCreated ==
    /\ state # NullState
    /\ \E fault \in QueryFaults :
        \E out \in ImportOutcomes(ValueString(state.ID), db, db, db, fault) :
            /\ state' = IF out.result = "set" THEN out.data ELSE state
            /\ op' = Invocation("ImportState", ValueString(state.ID), fault, out, db)
            /\ diags' = out.diags
            /\ log' = out.log
            /\ UNCHANGED db

NextRound ==
    \/ CreateRound
    \/ ImportCreated

SpecRound == Init /\ [][NextRound]_vars

\* The import-then-verify runs: a server that holds one table and does not change, a
\* workspace that tracks nothing; the table is imported, then Read is invoked on the
\* state the import saved.
InitFix ==
    /\ state = NullState
    /\ db \in {{t} : t \in FixTables}
    /\ op = NoInvocation
    /\ diags = <<>>
    /\ log = <<>>

NextFix ==
    \/ ImportState
    \/ Read

SpecFix == InitFix /\ [][NextFix]_vars

\* The racing runs: the table of an import-then-verify run is imported, and while Read
\* runs on the imported state another actor drops the table, after Read's first or
\* after its second query; each query is answered from the server as it stands then.
ReadDuringDrop ==
    /\ state # NullState
    /\ \E t \in db, issued \in {1, 2}, fault \in QueryFaults :
        LET dropped == db \ {t}
            out == ReadOutcome(state, db, IF issued = 1 THEN dropped ELSE db, dropped, fault)
        IN  /\ state' = CASE out.result = "removed" -> NullState
                          [] out.result = "set" -> out.data
                          [] OTHER -> state
            /\ op' = Invocation("Read", state, fault, out, db)
            /\ diags' = out.diags
            /\ log' = out.log
            /\ db' = dropped

NextRace ==
    \/ ImportState
    \/ ReadDuringDrop

SpecRace == InitFix /\ [][NextRace]_vars

-----------------------------------------------------------------------------
(* Vocabulary of the properties *)

\* the summary of the error the last invocation reported, "none" when it reported none
Summary == IF diags = <<>> THEN "none" ELSE diags[1].summary

\* the positions of the dots of an identifier
DotPositions(id) == {j \in 1..Len(id) : SubSeq(id, j, j) = "."}

\* an identifier of exactly two non-empty dot-separated parts
WellFormedID(id) ==
    \E j \in 1..Len(id) : DotPositions(id) = {j} /\ 1 < j /\ j < Len(id)

\* the two parts of a well-formed identifier
DatabaseOfID(id) == SubSeq(id, 1, (CHOOSE j \in DotPositions(id) : TRUE) - 1)
NameOfID(id) == SubSeq(id, (CHOOSE j \in DotPositions(id) : TRUE) + 1, Len(id))

\* the column names of a desired table are pairwise distinct
DistinctNames(columns) ==
    \A i, j \in 1..Len(columns) : columns[i].Name = columns[j].Name => i = j

\* the rows that mirror the desired columns: an absent comment is the empty string
MirrorRows(columns) ==
    {[name |-> columns[i].Name.value, type |-> columns[i].Type.value,
      comment |-> IF columns[i].Comment.state = "known" THEN columns[i].Comment.value ELSE ""] :
        i \in 1..Len(columns)}

\* the rows of an actual table
Rows(t) == {t.columns[i] : i \in 1..Len(t.columns)}

\* the names of a desired order key
OrderStrs(orderBy) == [i \in 1..Len(orderBy) |-> orderBy[i].value]

RECURSIVE JoinKey(_)
JoinKey(k) ==
    IF k = <<>> THEN ""
    ELSE IF Len(k) = 1 THEN k[1]
    ELSE k[1] \o ", " \o JoinKey(Tail(k))

\* the stored sorting key sk is the order key k
Serializes(sk, k) ==
    IF k = <<>> THEN ~sk.Valid \/ sk.String = ""
    ELSE sk.Valid /\ sk.String = JoinKey(k)

\* the other arrangements of the names of an order key
Rearrangements(k) ==
    {a \in [1..Len(k) -> {k[i] : i \in 1..Len(k)}] :
        /\ a # k
        /\ \A x \in {k[i] : i \in 1..Len(k)} :
              Cardinality({i \in 1..Len(k) : a[i] = x}) = Cardinality({i \in 1..Len(k) : k[i] = x})}

\* t is the table the desired table names, with its engine and mirrored columns
MirrorsColumns(data, t) ==
    /\ t.database = data.Database.value
    /\ t.name = data.Name.value
    /\ t.engine = data.Engine.value
    /\ DistinctNames(data.Columns)
    /\ Len(t.columns) = Len(data.Columns)
    /\ Rows(t) = MirrorRows(data.Columns)

\* t mirrors the desired table exactly
IsMirror(data, t) ==
    /\ MirrorsColumns(data, t)
    /\ Serializes(t.sorting_key, OrderStrs(data.OrderBy))

\* the last invocation was a Read whose queries all answered
ReadAnswered == op.name = "Read" /\ op.fault = "none"

\* the last Read found the table to match: no error, the state saved as it was
ReadMatched ==
    /\ diags = <<>>
    /\ op.result = "set"
    /\ op.data = op.req
    /\ state = op.req

\* the last Read reported the one error with this summary and kept the state
ReadReported(summary) ==
    /\ Len(diags) = 1
    /\ diags[1].summary = summary
    /\ op.result = "none"
    /\ state = op.req

-----------------------------------------------------------------------------
(* Properties *)

\* C1: a Read whose queries all answer, on a desired table with distinct column names
\* against an actual table that mirrors it exactly (same engine, same columns with an
\* absent comment as '', same order key), reports no error and saves the state.
C1_MirrorMatches ==
    ReadAnswered =>
        \A t \in op.pre : IsMirror(op.req, t) => ReadMatched

C1_Witness ==
    /\ ReadAnswered
    /\ \E t \in op.pre : IsMirror(op.req, t) /\ t.engine = "MergeTree"
    /\ Len(op.req.Columns) = 2
    /\ Len(op.req.OrderBy) = 2
    /\ \E i \in 1..Len(op.req.Columns) : op.req.Columns[i].Comment = StringNull
    /\ ReadMatched
    /\ Len(log) = 3

\* C2: when the actual columns are the mirrored columns with one removed or one added
\* (any proper subset or superset of them), and the engine is the desired one, Read
\* reports a schema mismatch that is the column-count mismatch, and keeps the state.
C2_ColumnCountMismatch ==
    ReadAnswered =>
        \A t \in op.pre :
            ( /\ t.database = op.req.Database.value
              /\ t.name = op.req.Name.value
              /\ t.engine = op.req.Engine.value
              /\ DistinctNames(op.req.Columns)
              /\ Rows(t) # MirrorRows(op.req.Columns)
              /\ \/ Rows(t) \subseteq MirrorRows(op.req.Columns)
                 \/ MirrorRows(op.req.Columns) \subseteq Rows(t) )
            => /\ ReadReported("Table schema mismatch")
               /\ diags[1].detail.kind = "count"
               /\ diags[1].detail.expected = Len(op.req.Columns)
               /\ diags[1].detail.found = Len(t.columns)

C2_Witness ==
    /\ ReadAnswered
    /\ Len(op.req.Columns) = 2
    /\ DistinctNames(op.req.Columns)
    /\ \E t \in op.pre :
        /\ t.engine = op.req.Engine.value
        /\ Len(t.columns) = 1
        /\ Rows(t) \subseteq MirrorRows(op.req.Columns)
    /\ ReadReported("Table schema mismatch")
    /\ diags[1].detail.kind = "count"

\* C3: when engine and columns mirror the desired table and the actual order key is
\* another arrangement of the desired names, Read reports an ORDER BY mismatch at a
\* position (the lengths being equal) for the engine MergeTree, and a match for the
\* engine Log, for which the sorting key is not read at all.
C3_OrderKeyPositional ==
    ReadAnswered =>
        \A t \in op.pre :
            ( /\ MirrorsColumns(op.req, t)
              /\ \E a \in Rearrangements(OrderStrs(op.req.OrderBy)) : Serializes(t.sorting_key, a) )
            => /\ t.engine = "MergeTree" =>
                    /\ ReadReported("Table ORDER BY mismatch")
                    /\ diags[1].detail.kind = "orderByColumn"
               /\ t.engine = "Log" => (ReadMatched /\ Len(log) = 2)

C3_Witness ==
    /\ ReadAnswered
    /\ \E t \in op.pre :
        /\ MirrorsColumns(op.req, t)
        /\ t.engine = "MergeTree"
        /\ \E a \in Rearrangements(OrderStrs(op.req.OrderBy)) : Serializes(t.sorting_key, a)
    /\ ReadReported("Table ORDER BY mismatch")
    /\ diags[1].detail.kind = "orderByColumn"

\* the table an identifier of two non-empty parts names is not on the server
AbsentBefore(id) ==
    ~\E t \in op.pre : t.database = DatabaseOfID(id) /\ t.name = NameOfID(id)

\* C4: a Read on an identifier of two non-empty parts whose table is not on the server,
\* the engine lookup answering, removes the resource from the state after that one query
\* and reports no error.
C4_AbsentIsGone ==
    ( /\ ReadAnswered
      /\ WellFormedID(op.req.ID.value)
      /\ AbsentBefore(op.req.ID.value) )
    => /\ diags = <<>>
       /\ op.result = "removed"
       /\ state = NullState
       /\ Len(log) = 1

C4_Witness ==
    /\ ReadAnswered
    /\ WellFormedID(op.req.ID.value)
    /\ AbsentBefore(op.req.ID.value)
    /\ op.result = "removed"
    /\ state = NullState

\* C5: a Read on an identifier that is not exactly two non-empty dot-separated parts
\* reports "Invalid table ID" and issues no query.
C5_ReadRejectsMalformed ==
    (op.name = "Read" /\ ~WellFormedID(op.req.ID.value))
    => (ReadReported("Invalid table ID") /\ log = <<>>)

\* C6: an ImportState on an identifier that is not exactly two dot-separated parts, or has
\* an empty part, reports "Invalid import identifier", issues no query and sets no state.
C6_ImportRejectsMalformed ==
    (op.name = "ImportState" /\ ~WellFormedID(op.req))
    => /\ Len(diags) = 1
       /\ diags[1].summary = "Invalid import identifier"
       /\ log = <<>>
       /\ op.result = "none"
       /\ state = NullState

C6_Witness ==
    /\ op.name = "ImportState"
    /\ op.req = ".t"
    /\ Summary = "Invalid import identifier"
    /\ log = <<>>

\* C7: an ImportState on an identifier of two non-empty parts whose table is not on the
\* server, the engine lookup answering, reports "Table not found" and sets no state.
C7_ImportAbsentNotFound ==
    ( /\ op.name = "ImportState"
      /\ op.fault = "none"
      /\ WellFormedID(op.req)
      /\ AbsentBefore(op.req) )
    => /\ Len(diags) = 1
       /\ diags[1].summary = "Table not found"
       /\ op.result = "none"
       /\ state = NullState

C7_Witness ==
    /\ op.name = "ImportState"
    /\ op.fault = "none"
    /\ op.req = "default.t"
    /\ AbsentBefore(op.req)
    /\ Summary = "Table not found"

\* C8: every Update reports an error, issues no statement, sets no state, and leaves the
\* tracked state and the server as they were.
C8_UpdateAlwaysFails ==
    op.name = "Update"
    => /\ diags # <<>>
       /\ log = <<>>
       /\ op.result = "none"
       /\ state = op.prior
       /\ db = op.pre

C8_Witness ==
    /\ op.name = "Update"
    /\ op.req.Columns # op.prior.Columns
    /\ op.req.Engine # op.prior.Engine
    /\ Summary = "Update is not implemented"
    /\ state = op.prior

\* the database and the name Create works on
CreateDatabase == IF op.req.Database.state = "known" THEN op.req.Database.value ELSE "default"
CreateName == op.req.Name.value

\* the statement of the last Create failed: an I/O fault, or the table was there already
CreateFailed ==
    \/ op.fault = "exec"
    \/ \E t \in op.pre : t.database = CreateDatabase /\ t.name = CreateName

\* C9: every Create issues exactly one statement; when it fails, the one error names
\* database.name, no ID is set, no state is saved and the server is as before; when it
\* succeeds, the state is saved with a known ID and no error.
C9_CreateAllOrNothing ==
    op.name = "Create"
    => /\ Len(log) = 1
       /\ log[1].call = "Exec"
       /\ CreateFailed =>
            /\ Len(diags) = 1
            /\ diags[1].summary = "Error creating table"
            /\ diags[1].detail.id = CreateDatabase \o "." \o CreateName
            /\ op.result = "none"
            /\ op.data.ID.state # "known"
            /\ state = NullState
            /\ db = op.pre
       /\ ~CreateFailed =>
            /\ diags = <<>>
            /\ op.result = "set"
            /\ state = op.data
            /\ state.ID.state = "known"

C9_Witness ==
    /\ op.name = "Create"
    /\ op.fault = "exec"
    /\ Summary = "Error creating table"
    /\ state = NullState
    /\ db = op.pre

\* the table the last Delete was to drop was not on the server
DeleteAbsentBefore ==
    ~\E t \in op.pre : t.database = op.req.Database.value /\ t.name = op.req.Name.value

\* C10: every Delete issues exactly the one statement DROP TABLE IF EXISTS database.name;
\* when the table is already absent and the statement is executed, no error is reported
\* and the server is unchanged; when the statement fails, the one error is reported, and
\* state and server stay as they were, with no second statement.
C10_DeleteGuardedDrop ==
    op.name = "Delete"
    => /\ log = << [call |-> "Exec",
                   sql |-> "DROP TABLE IF EXISTS " \o op.req.Database.value \o "." \o op.req.Name.value,
                   args |-> <<>>] >>
       /\ (op.fault = "none" /\ DeleteAbsentBefore) =>
            /\ diags = <<>>
            /\ db = op.pre
            /\ state = NullState
       /\ op.fault = "exec" =>
            /\ Len(diags) = 1
            /\ diags[1].summary = "Error dropping table"
            /\ db = op.pre
            /\ state = op.prior

C10_Witness ==
    /\ op.name = "Delete"
    /\ op.fault = "none"
    /\ DeleteAbsentBefore
    /\ diags = <<>>
    /\ db = op.pre

-----------------------------------------------------------------------------
(* C11, C12: the CREATE TABLE statement *)

\* the lines of the statement the last Create executed
CreateLines == Split(log[1].sql, "\n")
\* the line of a column: name and type, the COMMENT clause when the comment is present,
\* and the separator unless the column is the last
ColumnLine(col, last) ==
    "    " \o col.Name.value \o " " \o col.Type.value
    \o (IF col.Comment.state = "known" THEN " COMMENT '" \o col.Comment.value \o "'" ELSE "")
    \o (IF last THEN "" ELSE ",")
\* the plan of the last Create with its columns, its order key and its engine
SynthColumns == op.req.Columns
SynthOrderBy == op.req.OrderBy
SynthKeyed == Len(SynthOrderBy) > 0

\* C11: the statement Create executes lists the declared columns in declared order, one
\* line 'name type' each, with a COMMENT clause exactly on the columns whose comment is
\* present, closes with the engine, and ends with the ORDER BY clause holding the order
\* key in declared order exactly when the order key is non-empty, for every engine.
C11_StatementShape ==
    (op.name = "Create" /\ Len(SynthColumns) > 0) =>
        LET n == Len(SynthColumns)
        IN  /\ Len(CreateLines) = n + 2 + (IF SynthKeyed THEN 1 ELSE 0)
            /\ \A i \in 1..n : CreateLines[i + 1] = ColumnLine(SynthColumns[i], i = n)
            /\ CreateLines[n + 2] = ") ENGINE = " \o op.req.Engine.value
            /\ SynthKeyed =>
                  CreateLines[n + 3] = "ORDER BY (" \o JoinKey(OrderStrs(SynthOrderBy)) \o ")"

\* an ordered Log table with a commented and an uncommented column was created
C11_Witness ==
    /\ op.name = "Create"
    /\ op.result = "set"
    /\ op.req.Engine = StringValue("Log")
    /\ Len(SynthOrderBy) = 2
    /\ Len(SynthColumns) = 2
    /\ SynthColumns[1].Comment = StringNull
    /\ SynthColumns[2].Comment = StringValue("pk")
    /\ Len(CreateLines) = 5

\* the plan of the events example
EventsPlan ==
    [ID |-> StringUnknown, Name |-> StringValue("events"), Database |-> StringValue("default"),
     Engine |-> StringValue("MergeTree"),
     Columns |-> <<ColumnModel(StringValue("id"), StringValue("UInt64"), StringValue("pk")),
                   ColumnModel(StringValue("ts"), StringValue("DateTime"), StringValue(""))>>,
     OrderBy |-> <<StringValue("id")>>]

\* C12 as stated: for the events plan the statement is the one whose ts column carries
\* no COMMENT clause.
C12_ExampleStatement ==
    (op.name = "Create" /\ op.req = EventsPlan) =>
        log[1].sql = "CREATE TABLE default.events (\n    id UInt64 COMMENT 'pk',\n    ts DateTime\n) ENGINE = MergeTree\nORDER BY (id)"

\* C12: for the events plan, whose ts column has the present comment '', the statement
\* is the one whose ts column carries the clause COMMENT ''.
C12_ExampleStatementAmended ==
    (op.name = "Create" /\ op.req = EventsPlan) =>
        log[1].sql = "CREATE TABLE default.events (\n    id UInt64 COMMENT 'pk',\n    ts DateTime COMMENT ''\n) ENGINE = MergeTree\nORDER BY (id)"

\* the events table was created
C12_Witness ==
    /\ op.name = "Create"
    /\ op.req = EventsPlan
    /\ op.result = "set"
    /\ state.ID = StringValue("default.events")

-----------------------------------------------------------------------------
(* C13, C14, C15: what ImportState reads back *)

\* the table an import read, and whether it answered with a state
ImportedTable == TheTable(op.pre, DatabaseOfID(op.req), NameOfID(op.req))
Imported == op.name = "ImportState" /\ op.result = "set"

\* a sorting key with exactly one enclosing parenthesis pair removed when it has one
Unparenthesized(s) ==
    IF Len(s) >= 2 /\ Head(s) = "(" /\ SubSeq(s, Len(s), Len(s)) = ")"
    THEN SubSeq(s, 2, Len(s) - 1)
    ELSE s
\* the order key the sorting key stands for: nothing for NULL or '', else the entries
\* between the commas, each without surrounding whitespace
OrderKeyOf(sk) ==
    IF ~sk.Valid \/ sk.String = "" THEN <<>>
    ELSE LET parts == Split(Unparenthesized(sk.String), ",")
         IN  [i \in 1..Len(parts) |-> TrimSpace(parts[i])]

\* C13 as stated: the order key an import of a MergeTree-family table returns is the
\* sorting key with exactly one enclosing parenthesis pair removed when present and
\* nothing else, split on commas, each entry trimmed.
C13_OrderKeyParsed ==
    (Imported /\ isMergeTreeFamily(ImportedTable.engine)) =>
        OrderStrs(op.data.OrderBy) = OrderKeyOf(ImportedTable.sorting_key)

\* the names of the columns of an imported state, in their order
ImportedNames == [i \in 1..Len(op.data.Columns) |-> op.data.Columns[i].Name.value]
\* the names of the columns of a table, in position order
PositionNames(t) == [i \in 1..Len(t.columns) |-> t.columns[i].name]

\* C14 as stated: an import returns the columns in the position order of the database.
C14_ImportPositionOrder ==
    Imported => ImportedNames = PositionNames(ImportedTable)

\* C15: a column declared with no comment and created comes back from an import with
\* the null comment, never with a present empty string.
C15_AbsentCommentRoundTrip ==
    Imported =>
        \A i \in 1..Len(op.prior.Columns) :
            op.prior.Columns[i].Comment = StringNull =>
                /\ \E j \in 1..Len(op.data.Columns) :
                       op.data.Columns[j].Name = op.prior.Columns[i].Name
                /\ \A j \in 1..Len(op.data.Columns) :
                       op.data.Columns[j].Name = op.prior.Columns[i].Name =>
                           op.data.Columns[j].Comment = StringNull

\* a table created from a plan with an uncommented column was imported, the column
\* came back with the null comment
C15_Witness ==
    /\ Imported
    /\ op.prior.ID = StringValue("default.t")
    /\ op.prior.Columns =
         <<ColumnModel(StringValue("ts"), StringValue("datetime"), StringNull),
           ColumnModel(StringValue("id"), StringValue("UInt64"), StringValue("pk"))>>
    /\ \E j \in 1..2 :
         op.data.Columns[j] = ColumnModel(StringValue("ts"), StringValue("datetime"), StringNull)
    /\ Len(log) = 2

-----------------------------------------------------------------------------
(* C16: one mismatch category per Read, the first in the fixed order *)

\* the table the last Read looked at
ReadTable == TheTable(op.pre, DatabaseOfID(op.req.ID.value), NameOfID(op.req.ID.value))
ReadFound ==
    /\ ReadAnswered
    /\ WellFormedID(op.req.ID.value)
    /\ Exists(op.pre, DatabaseOfID(op.req.ID.value), NameOfID(op.req.ID.value))

\* how a desired column fares against the actual table: missing, then type, then comment
ColumnVerdict(col, t) ==
    IF \A r \in Rows(t) : r.name # col.Name.value THEN "missing"
    ELSE LET r == CHOOSE x \in Rows(t) : x.name = col.Name.value
         IN  IF r.type # col.Type.value THEN "type"
             ELSE IF r.comment # (IF col.Comment.state = "known" THEN col.Comment.value ELSE "")
             THEN "comment"
             ELSE "ok"

\* the first category in which the actual table departs from the desired one, with the
\* column it names: engine, column count, the first failing column in declared order,
\* order key (MergeTree family only); "match" when it departs in none
FirstCategory(data, t) ==
    IF t.engine # data.Engine.value THEN <<"engine">>
    ELSE IF Len(data.Columns) # Cardinality(Rows(t)) THEN <<"count">>
    ELSE IF \E i \in 1..Len(data.Columns) : ColumnVerdict(data.Columns[i], t) # "ok"
    THEN LET i == CHOOSE j \in 1..Len(data.Columns) :
                    /\ ColumnVerdict(data.Columns[j], t) # "ok"
                    /\ \A k \in 1..(j - 1) : ColumnVerdict(data.Columns[k], t) = "ok"
         IN  <<ColumnVerdict(data.Columns[i], t), data.Columns[i].Name.value>>
    ELSE IF isMergeTreeFamily(t.engine) /\ ~Serializes(t.sorting_key, OrderStrs(data.OrderBy))
    THEN <<"order">>
    ELSE <<"match">>

\* the category the diagnostics of the last Read report
ReportedCategory ==
    IF diags = <<>> THEN <<"match">>
    ELSE IF Len(diags) > 1 THEN <<"several">>
    ELSE IF diags[1].summary = "Table engine mismatch" THEN <<"engine">>
    ELSE IF diags[1].summary = "Table ORDER BY mismatch" THEN <<"order">>
    ELSE IF diags[1].summary = "Table schema mismatch"
    THEN IF diags[1].detail.kind = "count" THEN <<"count">>
         ELSE <<diags[1].detail.kind, diags[1].detail.column>>
    ELSE <<"other">>

-----------------------------------------------------------------------------
(* C17, C18: failing queries and the number of round-trips *)

\* the error Read and ImportState report when the query the fault was set on fails
FaultSummary(fault) ==
    CASE fault = "engine" -> "Error checking table existence"
      [] fault = "columns" -> "Error reading table schema"
      [] fault = "sorting_key" -> "Error reading table ORDER BY"
      [] OTHER -> "none"

\* C17: when the engine lookup, the column query or the sorting-key query of a Read or
\* an ImportState fails with an I/O error, the invocation reports the error of that
\* query and nothing else, Read does not remove the resource and keeps the state as
\* it was, ImportState sets no state.
C17_FailureIsAnError ==
    (op.name \in {"Read", "ImportState"} /\ op.fault # "none") =>
        /\ Len(diags) = 1
        /\ diags[1].summary = FaultSummary(op.fault)
        /\ op.result = "none"
        /\ state = op.prior

\* the column query of a Read on a tracked, existing table failed: the state is kept
C17_Witness ==
    /\ op.name = "Read"
    /\ op.fault = "columns"
    /\ Exists(op.pre, "default", "t")
    /\ Summary = "Error reading table schema"
    /\ state = op.prior
    /\ state # NullState

\* the queries of Read and ImportState, in the order they are issued
QuerySequence == <<EngineQuery, ColumnsQuery, SortingKeyQuery>>

\* C18: Create and Delete issue exactly one execute, Update issues nothing, Read and
\* ImportState issue a prefix of the three queries engine, columns, sorting key, each
\* at most once; no statement is repeated, failed or not.
C18_RoundTrips ==
    /\ op.name \in {"Create", "Delete"} => (Len(log) = 1 /\ log[1].call = "Exec")
    /\ op.name = "Update" => log = <<>>
    /\ op.name \in {"Read", "ImportState"} =>
          /\ Len(log) <= 3
          /\ \A i \in 1..Len(log) : log[i].call = "Query" /\ log[i].sql = QuerySequence[i]

\* a Delete whose statement failed: one execute, not repeated
C18_Witness ==
    /\ op.name = "Delete"
    /\ op.fault = "exec"
    /\ Summary = "Error dropping table"
    /\ Len(log) = 1
    /\ log[1].call = "Exec"

-----------------------------------------------------------------------------
(* C19: how one desired column is compared *)

\* the comment a desired column is compared with: its text, '' when it has none
ComparedComment(col) == IF col.Comment.state = "known" THEN col.Comment.value ELSE ""
\* the actual table has the desired column with exactly its type and its compared comment
ColumnAgrees(col, t) ==
    \E r \in Rows(t) :
        /\ r.name = col.Name.value
        /\ r.type = col.Type.value
        /\ r.comment = ComparedComment(col)
\* the last Read got as far as the per-column comparison
ReadComparedColumns ==
    /\ ReadFound
    /\ ReadTable.engine = op.req.Engine.value
    /\ Len(op.req.Columns) = Cardinality(Rows(ReadTable))
\* the desired column the last Read reported: the first, in declared order, that
\* does not agree
ReportedColumn ==
    LET i == CHOOSE j \in 1..Len(op.req.Columns) :
                /\ ~ColumnAgrees(op.req.Columns[j], ReadTable)
                /\ \A k \in 1..(j - 1) : ColumnAgrees(op.req.Columns[k], ReadTable)
    IN  op.req.Columns[i]

C19_TypeCaseReported ==
    /\ ReadComparedColumns
    /\ Summary = "Table schema mismatch"
    /\ diags[1].detail.kind = "type"
    /\ diags[1].detail.expected = "datetime"
    /\ diags[1].detail.found = "DateTime"

-----------------------------------------------------------------------------
(* C20: the database and the identity of a created table *)

\* C20: a successful Create saves the database it was given, or "default" when it was
\* given none, and the ID database.name; the executed statement creates that very
\* database.name, and the table is on the server under it.
C20_CreateIdentity ==
    (op.name = "Create" /\ op.result = "set") =>
        /\ state.Database = StringValue(CreateDatabase)
        /\ state.Name = op.req.Name
        /\ state.ID = StringValue(CreateDatabase \o "." \o CreateName)
        /\ HasPrefix(log[1].sql, "CREATE TABLE " \o CreateDatabase \o "." \o CreateName \o " (")
        /\ \E t \in db : t.database = CreateDatabase /\ t.name = CreateName

\* a table planned with the database still unknown was created as default.t
C20_Witness ==
    /\ op.name = "Create"
    /\ op.result = "set"
    /\ op.req.Database = StringUnknown
    /\ state.ID = StringValue("default.t")
    /\ state.Database = StringValue("default")

-----------------------------------------------------------------------------
(* C21: import, then verify *)

\* C21: on a server that does not change, every Read of a state an import saved, its
\* queries answering, finds a match: no error, the resource not removed, the state
\* saved as the import left it.
C21_ImportThenReadMatches ==
    (ReadAnswered /\ op.pre = db) => ReadMatched

\* the table with an expression as sorting key was imported with its columns in the
\* reverse of the position order, and the Read of that state matched
C21_Witness ==
    /\ ReadAnswered
    /\ ReadMatched
    /\ ReadTable.sorting_key = NullStringOf("toDate(ts)")
    /\ Len(state.Columns) = 2
    /\ state.Columns[1].Name = StringValue("ts")
    /\ state.Columns[2].Comment = StringNull
    /\ Len(log) = 3

-----------------------------------------------------------------------------
(* C22: the identity Create built, read back *)

\* C22 as stated: a Read of a tracked table does not fail with "Invalid table ID", and
\* the two parts it splits the ID into, the arguments of its engine lookup, are the
\* database and the name the ID was built from.
C22_IdentityParsesBack ==
    op.name = "Read" =>
        /\ Summary # "Invalid table ID"
        /\ log # <<>>
        /\ log[1].args = <<op.req.Database.value, op.req.Name.value>>

-----------------------------------------------------------------------------
(* C23: what an accepted column comparison covers *)

\* the names of the desired columns and of the actual rows of the last Read
DesiredNames == {op.req.Columns[i].Name.value : i \in 1..Len(op.req.Columns)}
ActualNames == {r.name : r \in Rows(ReadTable)}
\* validateColumns returned no error in the last Read
ColumnsAccepted ==
    /\ ReadFound
    /\ ReadTable.engine = op.req.Engine.value
    /\ Summary # "Table schema mismatch"

\* C23 as stated: when validateColumns accepts, the desired names are the actual names.
C23_AcceptedNamesEqual ==
    ColumnsAccepted => DesiredNames = ActualNames

-----------------------------------------------------------------------------
(* C24: a Read that races with a drop *)

\* what Read returns for the server as it stood when the last Read began
SnapshotOutcome == ReadOutcome(op.prior, op.pre, op.pre, op.pre, "none")

\* C24 as stated: a Read whose queries answer, during which the table is dropped,
\* either removes the resource without an error or reports and does what it would
\* have for the table as it stood before the drop.
C24_SnapshotConsistent ==
    ReadAnswered =>
        \/ (diags = <<>> /\ op.result = "removed")
        \/ (diags = SnapshotOutcome.diags /\ op.result = SnapshotOutcome.result)

====
